---- MODULE Spec2Model ----
(***************************************************************************)
(* Prism grammars of RulesFoundation/rac-syntax (packages prism-rac and    *)
(* prism-catala) and the tokenizer that runs them.                         *)
(*                                                                         *)
(* A text is a TLA+ string; a character is a string of length one.  A      *)
(* regular expression of a grammar is a tree of records, matched by a      *)
(* backtracking matcher with the priorities of the JavaScript one.  A      *)
(* grammar is the sequence of its patterns in declaration order.  The      *)
(* tokenizer is Prism's matchGrammar/tokenize, which the packages and      *)
(* their tests call; it is applied pattern by pattern, one step each.      *)
(***************************************************************************)
EXTENDS Integers, Sequences, FiniteSets, TLC

VARIABLES
    loaded,     \* the packages imported so far, in import order
    languages,  \* Prism.languages: language name -> registered grammar name
    pc,         \* "idle" | "run" | "done": the position of a tokenize call
    fx,         \* the fixture the running call was given (how code was built)
    lang,       \* the language name the running call asked for
    code,       \* the text being tokenized
    gname,      \* the grammar the running call uses
    tokens,     \* the token list of the running call
    idx,        \* the next pattern of the grammar to apply
    calls,      \* tokenize calls made so far
    global      \* the patterns whose RegExp has the g flag: <<grammar, pattern>>

vars == <<loaded, languages, pc, fx, lang, code, gname, tokens, idx, calls, global>>

\* ------------------------------------------------------------ characters

Digit == {"0", "1", "2", "3", "4", "5", "6", "7", "8", "9"}
Lower == {"a", "b", "c", "d", "e", "f", "g", "h", "i", "j", "k", "l", "m",
          "n", "o", "p", "q", "r", "s", "t", "u", "v", "w", "x", "y", "z"}
Upper == {"A", "B", "C", "D", "E", "F", "G", "H", "I", "J", "K", "L", "M",
          "N", "O", "P", "Q", "R", "S", "T", "U", "V", "W", "X", "Y", "Z"}
\* \w
WordCh == Digit \cup Lower \cup Upper \cup {"_"}
\* the line terminators a text of the model can hold: . excludes them, and
\* ^ and $ of a multiline pattern match next to them
LineTerm == {"\n", "\r"}
\* \s, over the characters a text of the model can hold
Space == {" ", "\t", "\f"} \cup LineTerm
HexCh == Digit \cup {"a", "b", "c", "d", "e", "f", "A", "B", "C", "D", "E", "F"}

Ch(t, i) == SubSeq(t, i, i)

\* the lower-case form of a character (for the i flag)
ToLower(c) ==
    CASE c = "A" -> "a" [] c = "B" -> "b" [] c = "C" -> "c" [] c = "D" -> "d"
      [] c = "E" -> "e" [] c = "F" -> "f" [] c = "G" -> "g" [] c = "H" -> "h"
      [] c = "I" -> "i" [] c = "J" -> "j" [] c = "K" -> "k" [] c = "L" -> "l"
      [] c = "M" -> "m" [] c = "N" -> "n" [] c = "O" -> "o" [] c = "P" -> "p"
      [] c = "Q" -> "q" [] c = "R" -> "r" [] c = "S" -> "s" [] c = "T" -> "t"
      [] c = "U" -> "u" [] c = "V" -> "v" [] c = "W" -> "w" [] c = "X" -> "x"
      [] c = "Y" -> "y" [] c = "Z" -> "z" [] OTHER -> c

\* --------------------------------------------------- regular expressions

Lit(s) == [t |-> "lit", s |-> s]
\* a literal under the i flag (s is written in lower case)
ILit(s) == [t |-> "ilit", s |-> s]
Set(S) == [t |-> "set", cs |-> S]
NSet(S) == [t |-> "nset", cs |-> S]
Dot == [t |-> "nset", cs |-> LineTerm]
\* [\s\S]
AnyCh == [t |-> "nset", cs |-> {}]
Cat(rs) == [t |-> "cat", rs |-> rs]
Alt(rs) == [t |-> "alt", rs |-> rs]
Star(r) == [t |-> "star", r |-> r]
LazyStar(r) == [t |-> "lazy", r |-> r]
Plus(r) == Cat(<<r, Star(r)>>)
Opt(r) == Alt(<<r, Cat(<<>>)>>)
Ahead(r) == [t |-> "ahead", r |-> r]
Behind(S) == [t |-> "behind", cs |-> S]
\* ^ and $; m is the pattern's m flag
Bol(m) == [t |-> "bol", m |-> m]
Eol(m) == [t |-> "eol", m |-> m]
WordB == [t |-> "wordb"]
\* (?:w1|w2|...) for a list of words, as `${list.join('|')}` builds it
Words(ws) == Alt([i \in 1..Len(ws) |-> Lit(ws[i])])
IWords(ws) == Alt([i \in 1..Len(ws) |-> ILit(ws[i])])

IsWordAt(t, i) == i >= 1 /\ i <= Len(t) /\ Ch(t, i) \in WordCh

\* whether s in lower case is the string w
LowerIs(s, w) == Len(s) = Len(w) /\ \A j \in 1..Len(s) : ToLower(Ch(s, j)) = Ch(w, j)

\* whether character c is one the class r (a set or its complement) takes
InClass(r, c) == IF r.t = "set" THEN c \in r.cs ELSE c \notin r.cs

\* the number of characters of t from index i on that the class r takes in a row
RunLen(r, t, i) ==
    LET stop == CHOOSE j \in i..(Len(t) + 1) :
                    /\ j = Len(t) + 1 \/ ~InClass(r, Ch(t, j))
                    /\ \A h \in i..(j - 1) : InClass(r, Ch(t, h))
    IN stop - i

\* whether b is a class or an escape, (?:[^...e]|e.): a character class that
\* leaves out the character e, or e and a character of a second class
IsEscapeAlt(b) ==
    /\ b.t = "alt"
    /\ Len(b.rs) = 2
    /\ b.rs[1].t \in {"set", "nset"}
    /\ b.rs[2].t = "cat"
    /\ Len(b.rs[2].rs) = 2
    /\ b.rs[2].rs[1].t = "lit"
    /\ Len(b.rs[2].rs[1].s) = 1
    /\ b.rs[2].rs[2].t \in {"set", "nset"}
    /\ ~InClass(b.rs[1], b.rs[2].rs[1].s)

\* the number of characters e in a row of t that end just before index k,
\* counted back to index i at most
EscapesBefore(e, t, i, k) ==
    CHOOSE n \in 0..(k - i) :
        /\ \A h \in (k - n)..(k - 1) : Ch(t, h) = e
        /\ n = k - i \/ Ch(t, k - n - 1) # e

\* the indices at which iterations of the class-or-escape b that start at
\* index i of t can end: every character before such an index that is not
\* itself escaped is taken by the class, or is e with its escaped character
\* before the index too
EscapeStops(b, t, i) ==
    LET e == b.rs[2].rs[1].s
        ok(k, p) ==
            IF Ch(t, k) = e
            THEN k + 1 <= p - 1 /\ InClass(b.rs[2].rs[2], Ch(t, k + 1))
            ELSE InClass(b.rs[1], Ch(t, k))
    IN {p \in i..(Len(t) + 1) :
          \A k \in i..(p - 1) : EscapesBefore(e, t, i, k) % 2 = 0 => ok(k, p)}

\* the least and the greatest number of a set of numbers that is not empty
Least(S) == CHOOSE x \in S : \A y \in S : x <= y
Greatest(S) == CHOOSE x \in S : \A y \in S : y <= x

RECURSIVE MatchSeq(_, _, _), TryAlt(_, _, _, _), Backoff(_, _, _, _), Advance(_, _, _, _),
          BackoffIn(_, _, _)

\* The end (the index after the last character matched) of the first match,
\* in backtracking order, of the regular expressions rs in sequence at index
\* i of t (indices from 1), or 0 when there is none.
MatchSeq(rs, t, i) ==
    IF Len(rs) = 0 THEN i
    ELSE
      LET r == rs[1]
          rest == Tail(rs)
      IN
      CASE r.t = "lit" ->
             IF i + Len(r.s) - 1 <= Len(t) /\ SubSeq(t, i, i + Len(r.s) - 1) = r.s
             THEN MatchSeq(rest, t, i + Len(r.s)) ELSE 0
        [] r.t = "ilit" ->
             IF i + Len(r.s) - 1 <= Len(t)
                /\ LowerIs(SubSeq(t, i, i + Len(r.s) - 1), r.s)
             THEN MatchSeq(rest, t, i + Len(r.s)) ELSE 0
        [] r.t = "set" ->
             IF i <= Len(t) /\ Ch(t, i) \in r.cs THEN MatchSeq(rest, t, i + 1) ELSE 0
        [] r.t = "nset" ->
             IF i <= Len(t) /\ Ch(t, i) \notin r.cs THEN MatchSeq(rest, t, i + 1) ELSE 0
        [] r.t = "cat" -> MatchSeq(r.rs \o rest, t, i)
        [] r.t = "alt" -> TryAlt(r.rs, rest, t, i)
        [] r.t = "star" ->
             IF r.r.t \in {"set", "nset"}
             THEN Backoff(rest, t, i, RunLen(r.r, t, i))
             ELSE IF IsEscapeAlt(r.r)
             THEN BackoffIn(rest, t, EscapeStops(r.r, t, i))
             ELSE
               \* greedy: one more iteration first, then none
               LET more == MatchSeq(<<r.r, [t |-> "iter", r |-> r, from |-> i]>> \o rest, t, i)
               IN IF more # 0 THEN more ELSE MatchSeq(rest, t, i)
        [] r.t = "lazy" ->
             IF r.r.t \in {"set", "nset"}
             THEN Advance(rest, t, i, RunLen(r.r, t, i))
             ELSE
               \* lazy: none first, then one more iteration
               LET none == MatchSeq(rest, t, i)
               IN IF none # 0 THEN none
                  ELSE MatchSeq(<<r.r, [t |-> "iter", r |-> r, from |-> i]>> \o rest, t, i)
        [] r.t = "iter" ->
             \* an iteration that matched the empty string is given up
             IF i = r.from THEN 0 ELSE MatchSeq(<<r.r>> \o rest, t, i)
        [] r.t = "ahead" ->
             IF MatchSeq(<<r.r>>, t, i) # 0 THEN MatchSeq(rest, t, i) ELSE 0
        [] r.t = "behind" ->
             IF i > 1 /\ Ch(t, i - 1) \in r.cs THEN MatchSeq(rest, t, i) ELSE 0
        [] r.t = "bol" ->
             IF i = 1 \/ (r.m /\ Ch(t, i - 1) \in LineTerm)
             THEN MatchSeq(rest, t, i) ELSE 0
        [] r.t = "eol" ->
             IF i = Len(t) + 1 \/ (r.m /\ Ch(t, i) \in LineTerm)
             THEN MatchSeq(rest, t, i) ELSE 0
        [] r.t = "wordb" ->
             IF IsWordAt(t, i - 1) # IsWordAt(t, i) THEN MatchSeq(rest, t, i) ELSE 0

\* a greedy star of a character class that can take n characters at i: the
\* most iterations first, then one fewer at a time
Backoff(rest, t, i, n) ==
    LET e == MatchSeq(rest, t, i + n)
    IN IF e # 0 \/ n = 0 THEN e
       ELSE LET ends == {<<k, MatchSeq(rest, t, i + k)>> : k \in 0..(n - 1)}
                hits == {x \in ends : x[2] # 0}
            IN IF hits = {} THEN 0
               ELSE (CHOOSE x \in hits : x[1] = Greatest({y[1] : y \in hits}))[2]

\* a greedy star whose iterations can end at the indices stops: the last of
\* them first, then the one before it
BackoffIn(rest, t, stops) ==
    LET e == MatchSeq(rest, t, Greatest(stops))
    IN IF e # 0 THEN e
       ELSE LET ends == {<<p, MatchSeq(rest, t, p)>> : p \in stops}
                hits == {x \in ends : x[2] # 0}
            IN IF hits = {} THEN 0
               ELSE (CHOOSE x \in hits : x[1] = Greatest({y[1] : y \in hits}))[2]

\* a lazy star of a character class that can take n characters at i: the
\* fewest iterations first, then one more at a time
Advance(rest, t, i, n) ==
    LET e == MatchSeq(rest, t, i)
    IN IF e # 0 \/ n = 0 THEN e
       ELSE LET ends == {<<k, MatchSeq(rest, t, i + k)>> : k \in 1..n}
                hits == {x \in ends : x[2] # 0}
            IN IF hits = {} THEN 0
               ELSE (CHOOSE x \in hits : x[1] = Least({y[1] : y \in hits}))[2]

\* the alternatives in their order: the first of them with which the rest
\* matches
TryAlt(alts, rest, t, i) ==
    LET ends == {<<k, MatchSeq(<<alts[k]>> \o rest, t, i)>> : k \in DOMAIN alts}
        hits == {x \in ends : x[2] # 0}
    IN IF hits = {} THEN 0
       ELSE (CHOOSE x \in hits : x[1] = Least({y[1] : y \in hits}))[2]

NoMatch == [index |-> -1, len |-> 0]

\* RegExp.prototype.exec with lastIndex = from (offsets from 0): the leftmost
\* match at or after from, as [index, len], or NoMatch.
ExecFrom(re, t, from) ==
    LET ends == {<<k, MatchSeq(<<re>>, t, k + 1)>> : k \in from..Len(t)}
        hits == {x \in ends : x[2] # 0}
    IN IF hits = {} THEN NoMatch
       ELSE LET first == CHOOSE x \in hits : x[1] = Least({y[1] : y \in hits})
            IN [index |-> first[1], len |-> first[2] - (first[1] + 1)]

\* String.prototype.slice(a, b) for 0 <= a <= b <= length
Slice(t, a, b) == SubSeq(t, a + 1, b)

\* ------------------------------------------------------- prism-rac lists

\* version listed before versions
sectionKeywords_versionFirst ==
    <<"text", "parameter", "variable", "input", "enum", "function", "version",
      "module", "versions", "jurisdiction", "import", "references">>

sectionKeywords ==
    <<"text", "parameter", "variable", "input", "enum", "function", "versions",
      "module", "version", "jurisdiction", "import", "references">>

attributeKeys ==
    <<"description", "unit", "source", "reference", "values", "imports",
      "entity", "period", "dtype", "label", "default", "formula", "tests",
      "name", "inputs", "expect", "metadata", "enacted_by", "reverts_to",
      "parameters", "threshold", "cap", "defined_for", "private", "internal">>

formulaKeywords ==
    <<"if", "else", "elif", "return", "for", "break", "and", "or", "not", "in",
      "as", "True", "False", "None", "let", "match", "case">>

formulaBuiltins == <<"max", "min", "abs", "round", "sum", "len", "interpolate">>

entityTypes == <<"Person", "TaxUnit", "Household", "Family", "SPMUnit">>

periodTypes == <<"Year", "Month", "Day", "Instant">>

dataTypes == <<"Money", "Rate", "Boolean", "Integer", "String", "USD">>

\* ------------------------------------------------------------- patterns

\* One pattern of a grammar: the token class, the regular expression, the
\* greedy flag and the nested grammar (<<>> when there is none).
Pat(type, re, greedy, inside) ==
    [type |-> type, re |-> re, greedy |-> greedy, inside |-> inside]

\* the comment pattern running over line breaks
HashComment_acrossLines == Cat(<<Lit("#"), Star(AnyCh)>>)
\* /#.*/
HashComment == Cat(<<Lit("#"), Star(Dot)>>)
\* /\/\/.*/
SlashComment == Cat(<<Lit("//"), Star(Dot)>>)
\* /"(?:[^"\\]|\\.)*"/
DoubleQuoted ==
    Cat(<<Lit("\""), Star(Alt(<<NSet({"\"", "\\"}), Cat(<<Lit("\\"), Dot>>)>>)), Lit("\"")>>)
\* /'(?:[^'\\]|\\.)*'/
SingleQuoted ==
    Cat(<<Lit("'"), Star(Alt(<<NSet({"'", "\\"}), Cat(<<Lit("\\"), Dot>>)>>)), Lit("'")>>)
\* -?\b\d+(?:\.\d+)?
SignedDecimal ==
    Cat(<<Opt(Lit("-")), WordB, Plus(Set(Digit)), Opt(Cat(<<Lit("."), Plus(Set(Digit))>>))>>)
\* the percentage pattern without its percent sign
PercentNumber_noSign == Cat(<<SignedDecimal, WordB>>)
\* /-?\b\d+(?:\.\d+)?%/
PercentNumber == Cat(<<SignedDecimal, Lit("%")>>)
\* /-?\b\d+(?:\.\d+)?\b/
PlainNumber == Cat(<<SignedDecimal, WordB>>)
\* /\b0x[\da-fA-F]+\b/
HexNumber == Cat(<<WordB, Lit("0x"), Plus(Set(HexCh)), WordB>>)

\* `^(?:${sectionKeywords.join('|')})(?:\\s+[\\w]+)?\\s*:` with flag m
SectionDeclarationRe ==
    Cat(<<Bol(TRUE), Words(sectionKeywords),
          Opt(Cat(<<Plus(Set(Space)), Plus(Set(WordCh))>>)),
          Star(Set(Space)), Lit(":")>>)
\* `^(?:${sectionKeywords.join('|')})`
SectionKeywordRe == Cat(<<Bol(FALSE), Words(sectionKeywords)>>)
\* /(?<=\s)[\w]+(?=\s*:)/
DeclarationNameRe ==
    Cat(<<Behind(Space), Plus(Set(WordCh)), Ahead(Cat(<<Star(Set(Space)), Lit(":")>>))>>)
\* the attr-name pattern with [ \t]* for [ \t]+
AttrNameRe_noIndent ==
    Cat(<<Alt(<<Bol(TRUE), Lit("\n")>>), Star(Set({" ", "\t"})), Opt(Lit("- ")),
          Words(attributeKeys), Ahead(Cat(<<Star(Set(Space)), Lit(":")>>))>>)
\* `(?:^|\\n)[ \\t]+(?:- )?(?:${attributeKeys.join('|')})(?=\\s*:)` with flags gm
AttrNameRe ==
    Cat(<<Alt(<<Bol(TRUE), Lit("\n")>>), Plus(Set({" ", "\t"})), Opt(Lit("- ")),
          Words(attributeKeys), Ahead(Cat(<<Star(Set(Space)), Lit(":")>>))>>)
\* /\d+(?:\/[\w]+)+#[\w]+/
ImportPathRe ==
    Cat(<<Plus(Set(Digit)), Plus(Cat(<<Lit("/"), Plus(Set(WordCh))>>)),
          Lit("#"), Plus(Set(WordCh))>>)
\* the date pattern with any day from 00 to 39
DateRe_anyDay ==
    Cat(<<WordB, Set(Digit), Set(Digit), Set(Digit), Set(Digit), Lit("-"),
          Alt(<<Cat(<<Lit("0"), Set(Digit \ {"0"})>>),
                Cat(<<Lit("1"), Set({"0", "1", "2"})>>)>>),
          Lit("-"), Set({"0", "1", "2", "3"}), Set(Digit), WordB>>)
\* /\b\d{4}-(?:0[1-9]|1[0-2])-(?:0[1-9]|[12]\d|3[01])\b/
DateRe ==
    Cat(<<WordB, Set(Digit), Set(Digit), Set(Digit), Set(Digit), Lit("-"),
          Alt(<<Cat(<<Lit("0"), Set(Digit \ {"0"})>>),
                Cat(<<Lit("1"), Set({"0", "1", "2"})>>)>>),
          Lit("-"),
          Alt(<<Cat(<<Lit("0"), Set(Digit \ {"0"})>>),
                Cat(<<Set({"1", "2"}), Set(Digit)>>),
                Cat(<<Lit("3"), Set({"0", "1"})>>)>>),
          WordB>>)
\* /[|>](?=\s*$)/m
BlockScalarRe == Cat(<<Set({"|", ">"}), Ahead(Cat(<<Star(Set(Space)), Eol(TRUE)>>))>>)
\* `\\b(?:${list.join('|')})\\b`
WordListRe(ws) == Cat(<<WordB, Words(ws), WordB>>)
\* /\b(?:true|false)\b/i
BooleanRe == Cat(<<WordB, IWords(<<"true", "false">>), WordB>>)
\* the operator pattern with the one-character class tried first
RacOperatorRe_classFirst ==
    Alt(<<Set({"+", "-", "*", "/", "<", ">", "=", "!", "?", "%"}),
          Lit("=="), Lit("!="), Lit("<="), Lit(">="), Lit("=>")>>)
\* /==|!=|<=|>=|=>|[+\-*/<>=!?%]/
RacOperatorRe ==
    Alt(<<Lit("=="), Lit("!="), Lit("<="), Lit(">="), Lit("=>"),
          Set({"+", "-", "*", "/", "<", ">", "=", "!", "?", "%"})>>)
\* /[{}[\](),:\.]/
RacPunctuationRe == Set({"{", "}", "[", "]", "(", ")", ",", ":", "."})

\* racGrammar['section-declaration'].inside
sectionInside ==
    <<Pat("section-keyword", SectionKeywordRe, FALSE, <<>>),
      Pat("declaration-name", DeclarationNameRe, FALSE, <<>>),
      Pat("punctuation", Lit(":"), FALSE, <<>>)>>

\* the attr-name rule without its nested grammar
attrInside_none == <<>>

\* racGrammar['attr-name'].inside
attrInside ==
    <<Pat("attr-name", Words(attributeKeys), FALSE, <<>>),
      Pat("punctuation", Lit("-"), FALSE, <<>>)>>

\* the rules of racGrammar, one definition for each pattern
racHashCommentRule == Pat("comment", HashComment, TRUE, <<>>)
racSlashCommentRule == Pat("comment", SlashComment, TRUE, <<>>)
sectionDeclarationRule == Pat("section-declaration", SectionDeclarationRe, FALSE, sectionInside)
attrNameRule == Pat("attr-name", AttrNameRe, FALSE, attrInside)
\* the import-path rule without greedy: true
importPathRule_notGreedy == Pat("import-path", ImportPathRe, FALSE, <<>>)
importPathRule == Pat("import-path", ImportPathRe, TRUE, <<>>)
dateRule == Pat("date", DateRe, TRUE, <<>>)
racDoubleStringRule == Pat("string", DoubleQuoted, TRUE, <<>>)
racSingleStringRule == Pat("string", SingleQuoted, TRUE, <<>>)
blockScalarRule == Pat("block-scalar", BlockScalarRe, FALSE, <<>>)
\* the entity-type rule built from the period types
entityTypeRule_periodTypes == Pat("entity-type", WordListRe(periodTypes), FALSE, <<>>)
entityTypeRule == Pat("entity-type", WordListRe(entityTypes), FALSE, <<>>)
periodTypeRule == Pat("period-type", WordListRe(periodTypes), FALSE, <<>>)
dtypeRule == Pat("dtype", WordListRe(dataTypes), FALSE, <<>>)
builtinRule == Pat("builtin", WordListRe(formulaBuiltins), FALSE, <<>>)
keywordRule == Pat("keyword", WordListRe(formulaKeywords), FALSE, <<>>)
booleanRule == Pat("boolean", BooleanRe, FALSE, <<>>)
hexNumberRule == Pat("number", HexNumber, FALSE, <<>>)
racPercentRule == Pat("number", PercentNumber, FALSE, <<>>)
\* the plain number rule with greedy: true
racNumberRule_greedy == Pat("number", PlainNumber, TRUE, <<>>)
racNumberRule == Pat("number", PlainNumber, FALSE, <<>>)
racOperatorRule == Pat("operator", RacOperatorRe, FALSE, <<>>)
racPunctuationRule == Pat("punctuation", RacPunctuationRe, FALSE, <<>>)

\* The RAC grammar: its patterns in declaration order (the order in which
\* matchGrammar's for-in loop and its loop over a rule's patterns visit them).
\* the rules with boolean declared before keyword
racGrammar_booleanFirst ==
    <<racHashCommentRule, racSlashCommentRule, sectionDeclarationRule, attrNameRule,
      importPathRule, dateRule, racDoubleStringRule, racSingleStringRule,
      blockScalarRule, entityTypeRule, periodTypeRule, dtypeRule, builtinRule,
      booleanRule, keywordRule, hexNumberRule, racPercentRule, racNumberRule,
      racOperatorRule, racPunctuationRule>>

\* the rules with the number rules declared before the date rule
racGrammar_numberBeforeDate ==
    <<racHashCommentRule, racSlashCommentRule, sectionDeclarationRule, attrNameRule,
      importPathRule, hexNumberRule, racPercentRule, racNumberRule, dateRule,
      racDoubleStringRule, racSingleStringRule, blockScalarRule, entityTypeRule,
      periodTypeRule, dtypeRule, builtinRule, keywordRule, booleanRule,
      racOperatorRule, racPunctuationRule>>

racGrammar ==
    <<racHashCommentRule, racSlashCommentRule, sectionDeclarationRule, attrNameRule,
      importPathRule, dateRule, racDoubleStringRule, racSingleStringRule,
      blockScalarRule, entityTypeRule, periodTypeRule, dtypeRule, builtinRule,
      keywordRule, booleanRule, hexNumberRule, racPercentRule, racNumberRule,
      racOperatorRule, racPunctuationRule>>

\* --------------------------------------------- Catala lists and patterns

\* catalaKeywords of prism-catala (type names are not among them)
catalaKeywords ==
    <<"scope", "definition", "rule", "under condition", "consequence",
      "assertion", "equals", "if", "then", "else", "match", "with pattern",
      "for", "let", "in", "not", "and", "or", "true", "false",
      "content", "struct", "enum", "declaration", "context",
      "input", "output", "internal", "state", "condition", "fulfilled",
      "sum", "exists", "among", "such that", "fixed by">>

typeNames == <<"money", "decimal", "integer", "boolean", "date", "duration", "collection">>

\* catalaKeywords of prism-rac (its own list, type names included)
racCatalaKeywords ==
    <<"scope", "definition", "rule", "under condition", "consequence",
      "assertion", "equals", "if", "then", "else", "match", "with pattern",
      "for", "let", "in", "not", "and", "or", "true", "false", "content",
      "struct", "enum", "declaration", "context", "input", "output",
      "internal", "state", "condition", "fulfilled", "integer", "decimal",
      "money", "date", "duration", "boolean", "collection", "sum", "exists",
      "among", "such that", "fixed by">>

\* list.sort((a, b) => b.length - a.length): longest first, and words of one
\* length in their order in the list (the sort is stable)
SortByLength(ws) ==
    LET before(i) == {j \in DOMAIN ws : Len(ws[j]) > Len(ws[i])
                                        \/ (Len(ws[j]) = Len(ws[i]) /\ j < i)}
    IN [k \in DOMAIN ws |-> ws[CHOOSE i \in DOMAIN ws : Cardinality(before(i)) = k - 1]]

\* a keyword as it is written, its white space not replaced
KeywordNodes_asWritten(k) == <<Lit(k)>>

\* k.replace(/\s+/g, '\\s+') as regular expressions in sequence: the words
\* of k with \s+ for each run of white space
KeywordNodes(k) ==
    LET starts == {i \in 1..Len(k) : Ch(k, i) \notin Space /\ (i = 1 \/ Ch(k, i - 1) \in Space)}
        n == Cardinality(starts)
        start(j) == CHOOSE i \in starts : Cardinality({h \in starts : h < i}) = j - 1
        word(j) == SubSeq(k, start(j), start(j) + RunLen(NSet(Space), k, start(j)) - 1)
        gap == <<Plus(Set(Space))>>
    IN (IF Len(k) > 0 /\ Ch(k, 1) \in Space THEN gap ELSE <<>>)
       \o [j \in 1..(IF n = 0 THEN 0 ELSE 2 * n - 1) |->
             IF j % 2 = 1 THEN Lit(word((j + 1) \div 2)) ELSE gap[1]]
       \o (IF n > 0 /\ Ch(k, Len(k)) \in Space THEN gap ELSE <<>>)

\* `\\b(?:${keywords.sort(...).map(...).join('|')})\\b`
KeywordListRe(ws) ==
    LET sorted == SortByLength(ws)
    IN Cat(<<WordB, Alt([i \in 1..Len(sorted) |-> Cat(KeywordNodes(sorted[i]))]), WordB>>)

\* the block comment pattern with a greedy star: /\/\*[\s\S]*\*\//
BlockComment_toLastEnd == Cat(<<Lit("/*"), Star(AnyCh), Lit("*/")>>)
\* /\/\*[\s\S]*?\*\//
BlockComment == Cat(<<Lit("/*"), LazyStar(AnyCh), Lit("*/")>>)
\* /@@[^@]+@@/
CatalaTitleRe == Cat(<<Lit("@@"), Plus(NSet({"@"})), Lit("@@")>>)
\* /@[^@]+@/
CatalaSectionRe == Cat(<<Lit("@"), Plus(NSet({"@"})), Lit("@")>>)
\* /\b(?:declaration\s+scope|scope)\s+\w+/
ScopeDeclarationRe ==
    Cat(<<WordB,
          Alt(<<Cat(<<Lit("declaration"), Plus(Set(Space)), Lit("scope")>>), Lit("scope")>>),
          Plus(Set(Space)), Plus(Set(WordCh))>>)
\* /\w+$/
ScopeNameRe == Cat(<<Plus(Set(WordCh)), Eol(FALSE)>>)
\* /==|!=|<=|>=|--|->|[+\-*/<>=!]/
CatalaOperatorRe ==
    Alt(<<Lit("=="), Lit("!="), Lit("<="), Lit(">="), Lit("--"), Lit("->"),
          Set({"+", "-", "*", "/", "<", ">", "=", "!"})>>)
\* /[{}[\](),:;\.]/
CatalaPunctuationRe == Set({"{", "}", "[", "]", "(", ")", ",", ":", ";", "."})

\* catalaGrammar['scope-declaration'].inside
scopeInside ==
    <<Pat("keyword", WordListRe(<<"declaration", "scope">>), FALSE, <<>>),
      Pat("scope-name", ScopeNameRe, FALSE, <<>>)>>

\* the rules of prism-catala's catalaGrammar, one definition for each pattern
catalaHashCommentRule == Pat("comment", HashComment, TRUE, <<>>)
catalaBlockCommentRule == Pat("comment", BlockComment, TRUE, <<>>)
\* the catala-title rule without greedy: true
catalaTitleRule_notGreedy == Pat("catala-title", CatalaTitleRe, FALSE, <<>>)
catalaTitleRule == Pat("catala-title", CatalaTitleRe, TRUE, <<>>)
catalaSectionRule == Pat("catala-section", CatalaSectionRe, TRUE, <<>>)
catalaDoubleStringRule == Pat("string", DoubleQuoted, TRUE, <<>>)
catalaSingleStringRule == Pat("string", SingleQuoted, TRUE, <<>>)
scopeDeclarationRule == Pat("scope-declaration", ScopeDeclarationRe, FALSE, scopeInside)
typeNameRule == Pat("type-name", WordListRe(typeNames), FALSE, <<>>)
catalaKeywordRule == Pat("keyword", KeywordListRe(catalaKeywords), FALSE, <<>>)
catalaPercentRule == Pat("number", PercentNumber, FALSE, <<>>)
catalaNumberRule == Pat("number", PlainNumber, FALSE, <<>>)
catalaOperatorRule == Pat("operator", CatalaOperatorRe, FALSE, <<>>)
catalaPunctuationRule == Pat("punctuation", CatalaPunctuationRe, FALSE, <<>>)

\* catalaGrammar with the keyword rule before the scope-declaration rule
catalaGrammar_keywordFirst ==
    <<catalaHashCommentRule, catalaBlockCommentRule, catalaTitleRule, catalaSectionRule,
      catalaDoubleStringRule, catalaSingleStringRule, catalaKeywordRule, scopeDeclarationRule,
      typeNameRule, catalaPercentRule, catalaNumberRule, catalaOperatorRule,
      catalaPunctuationRule>>

\* The Catala grammar of prism-catala
catalaGrammar ==
    <<catalaHashCommentRule, catalaBlockCommentRule, catalaTitleRule, catalaSectionRule,
      catalaDoubleStringRule, catalaSingleStringRule, scopeDeclarationRule, typeNameRule,
      catalaKeywordRule, catalaPercentRule, catalaNumberRule, catalaOperatorRule,
      catalaPunctuationRule>>

\* The Catala grammar of prism-rac
racCatalaGrammar ==
    <<Pat("comment", HashComment, TRUE, <<>>),
      Pat("catala-title", CatalaTitleRe, TRUE, <<>>),
      Pat("catala-section", CatalaSectionRe, TRUE, <<>>),
      Pat("string", DoubleQuoted, TRUE, <<>>),
      Pat("string", SingleQuoted, TRUE, <<>>),
      Pat("keyword", KeywordListRe(racCatalaKeywords), FALSE, <<>>),
      Pat("number", PlainNumber, FALSE, <<>>),
      Pat("operator", CatalaOperatorRe, FALSE, <<>>),
      Pat("punctuation", CatalaPunctuationRe, FALSE, <<>>)>>

\* the grammar objects by name
GrammarOf(g) ==
    CASE g = "racGrammar" -> racGrammar
      [] g = "catalaGrammar" -> catalaGrammar
      [] g = "racCatalaGrammar" -> racCatalaGrammar

\* ------------------------------------------------------------ tokenizer

\* A node of the token list: a plain string (type "plain") or a Token, whose
\* content is the matched text and, for a pattern with a nested grammar, the
\* token list of that text under it (inside).
Plain(str) == [type |-> "plain", content |-> str, inside |-> <<>>]
IsToken(n) == n.type # "plain"

RECURSIVE StartOf(_, _)
\* the offset at which node k of a token list starts
StartOf(toks, k) == IF k = 1 THEN 0 ELSE StartOf(toks, k - 1) + Len(toks[k - 1].content)

RECURSIVE NodeAt(_, _, _, _)
\* while (from >= p) currentNode = currentNode.next: the node, at or after
\* node k (which starts at p), that holds offset from
NodeAt(toks, k, p, from) ==
    IF from >= p + Len(toks[k].content) THEN NodeAt(toks, k + 1, p + Len(toks[k].content), from)
    ELSE [k |-> k, p |-> p]

RECURSIVE LastAffected(_, _, _, _)
\* for (k = currentNode; k !== tail && (p < to || typeof k.value === 'string'); ...):
\* the first node that is not removed, and the offset it starts at
LastAffected(toks, k, p, to) ==
    IF k <= Len(toks) /\ (p < to \/ ~IsToken(toks[k]))
    THEN LastAffected(toks, k + 1, p + Len(toks[k].content), to)
    ELSE [k |-> k, p |-> p]

RECURSIVE MatchGrammar(_, _, _, _, _, _, _, _, _), NodeLoop(_, _, _, _, _, _, _, _, _),
          Wrap(_, _, _, _, _, _, _, _, _, _, _, _)

\* Prism.tokenize(text, grammar) as the array of its token list
Tokenize(text, G) == MatchGrammar(text, G, 1, <<Plain(text)>>, 1, 0, FALSE, 0, 0).toks

\* matchGrammar from pattern pi on: the token list it leaves and the reach of
\* its rematch.  start and startPos are startNode.next and its offset; rm says
\* that this is a rematch, for the pattern cause, up to reach.
MatchGrammar(text, G, pi, toks, start, startPos, rm, cause, reach) ==
    IF pi > Len(G) \/ (rm /\ pi = cause) THEN [toks |-> toks, reach |-> reach, abort |-> FALSE]
    ELSE LET r == NodeLoop(text, G, pi, toks, start, startPos, rm, cause, reach)
         IN IF r.abort THEN r
            ELSE MatchGrammar(text, G, pi + 1, r.toks, start, startPos, rm, cause, r.reach)

\* The loop of pattern pi over the token list, at node ci, which starts at pos.
NodeLoop(text, G, pi, toks, ci, pos, rm, cause, reach) ==
    IF ci > Len(toks) \/ (rm /\ pos >= reach)
    THEN [toks |-> toks, reach |-> reach, abort |-> FALSE]
    ELSE IF Len(toks) > Len(text)
    THEN [toks |-> toks, reach |-> reach, abort |-> TRUE]
    ELSE IF IsToken(toks[ci])
    THEN NodeLoop(text, G, pi, toks, ci + 1, pos + Len(toks[ci].content), rm, cause, reach)
    ELSE IF G[pi].greedy
    THEN LET m == ExecFrom(G[pi].re, text, pos)
         IN IF m = NoMatch \/ m.index >= Len(text)
            THEN [toks |-> toks, reach |-> reach, abort |-> FALSE]
            ELSE LET at == NodeAt(toks, ci, pos, m.index)
                 IN IF IsToken(toks[at.k])
                    \* the match starts inside another Token
                    THEN NodeLoop(text, G, pi, toks, at.k + 1,
                                  at.p + Len(toks[at.k].content), rm, cause, reach)
                    ELSE LET last == LastAffected(toks, at.k, at.p, m.index + m.len)
                         IN Wrap(text, G, pi, toks, at.k, at.p, last.k - at.k,
                                 Slice(text, at.p, last.p), [m EXCEPT !.index = m.index - at.p],
                                 rm, cause, reach)
    ELSE LET m == ExecFrom(G[pi].re, toks[ci].content, 0)
         IN IF m = NoMatch
            THEN NodeLoop(text, G, pi, toks, ci + 1, pos + Len(toks[ci].content), rm, cause, reach)
            ELSE Wrap(text, G, pi, toks, ci, pos, 1, toks[ci].content, m, rm, cause, reach)

\* a replacement of several nodes that keeps nothing of what follows the match
Wrap_dropsAfter(text, G, pi, toks, ci, pos, removeCount, str, m, rm, cause, reach) ==
    LET matchStr == Slice(str, m.index, m.index + m.len)
        before == Slice(str, 0, m.index)
        after == IF removeCount > 1 THEN "" ELSE Slice(str, m.index + m.len, Len(str))
        newReach == pos + Len(str)
        reach1 == IF rm /\ newReach > reach THEN newReach ELSE reach
        wrapped == [type |-> G[pi].type, content |-> matchStr,
                    inside |-> IF Len(G[pi].inside) > 0
                               THEN Tokenize(matchStr, G[pi].inside) ELSE <<>>]
        toks1 == SubSeq(toks, 1, ci - 1)
                 \o (IF Len(before) > 0 THEN <<Plain(before)>> ELSE <<>>)
                 \o <<wrapped>>
                 \o (IF Len(after) > 0 THEN <<Plain(after)>> ELSE <<>>)
                 \o SubSeq(toks, ci + removeCount, Len(toks))
        wi == IF Len(before) > 0 THEN ci + 1 ELSE ci
        pos1 == pos + Len(before)
        nested == IF removeCount > 1
                  THEN MatchGrammar(text, G, 1, toks1, wi, pos1, TRUE, pi, newReach)
                  ELSE [toks |-> toks1, reach |-> reach1, abort |-> FALSE]
        reach2 == IF rm /\ nested.reach > reach1 THEN nested.reach ELSE reach1
    IN NodeLoop(text, G, pi, nested.toks, wi + 1, pos1 + Len(matchStr), rm, cause, reach2)

\* The match m in str, the text of the removeCount nodes from node ci (at pos)
\* on: they are replaced by before, the new Token and after; when Tokens were
\* removed, the patterns before pi are matched again from the new Token on.
Wrap(text, G, pi, toks, ci, pos, removeCount, str, m, rm, cause, reach) ==
    LET matchStr == Slice(str, m.index, m.index + m.len)
        before == Slice(str, 0, m.index)
        after == Slice(str, m.index + m.len, Len(str))
        newReach == pos + Len(str)
        reach1 == IF rm /\ newReach > reach THEN newReach ELSE reach
        wrapped == [type |-> G[pi].type, content |-> matchStr,
                    inside |-> IF Len(G[pi].inside) > 0
                               THEN Tokenize(matchStr, G[pi].inside) ELSE <<>>]
        toks1 == SubSeq(toks, 1, ci - 1)
                 \o (IF Len(before) > 0 THEN <<Plain(before)>> ELSE <<>>)
                 \o <<wrapped>>
                 \o (IF Len(after) > 0 THEN <<Plain(after)>> ELSE <<>>)
                 \o SubSeq(toks, ci + removeCount, Len(toks))
        wi == IF Len(before) > 0 THEN ci + 1 ELSE ci
        pos1 == pos + Len(before)
        nested == IF removeCount > 1
                  THEN MatchGrammar(text, G, 1, toks1, wi, pos1, TRUE, pi, newReach)
                  ELSE [toks |-> toks1, reach |-> reach1, abort |-> FALSE]
        reach2 == IF rm /\ nested.reach > reach1 THEN nested.reach ELSE reach1
    IN NodeLoop(text, G, pi, nested.toks, wi + 1, pos1 + Len(matchStr), rm, cause, reach2)

RECURSIVE Flat(_)
\* flattenTokens of the tests, plain strings kept: the (type, content) leaves
Flat(toks) ==
    IF Len(toks) = 0 THEN <<>>
    ELSE (IF Len(toks[1].inside) > 0 THEN Flat(toks[1].inside)
          ELSE <<[type |-> toks[1].type, content |-> toks[1].content]>>)
         \o Flat(Tail(toks))
\* ------------------------------------------------------------- fixtures

Range(ws) == {ws[i] : i \in DOMAIN ws}

\* the names under which the packages register grammars
LanguageNames == {"rac", "catala"}

\* A fixture is the text pre a b c post given to the language lang; kind says
\* what the parts are.
Fixture(kind, l, pre, a, b, c, post) ==
    [kind |-> kind, lang |-> l, pre |-> pre, a |-> a, b |-> b, c |-> c, post |-> post]
Text(f) == f.pre \o f.a \o f.b \o f.c \o f.post

\* `K N:` at column 0 (rac.test.ts, 'top-level declarations' and 'declaration names')
Names == {"x", "niit_rate", "FilingStatus", "version", "name", "2024", "_", "if"}
DeclFixtures ==
    {Fixture("decl", "rac", "", K, " ", N, ":") : K \in Range(sectionKeywords), N \in Names}

\* indentation, an optional `- `, an attribute key and `:` (rac.test.ts,
\* 'attribute keys'): as the first line, and after a declaration line
Indents == {"  ", "\t", "text t:\n \t "}
AttrFixtures ==
    {Fixture("attr", "rac", ind, dash, A, ":", " some_value") :
        ind \in Indents, dash \in {"", "- "}, A \in Range(attributeKeys)}

\* digits, `/segment` parts and `#name` (rac.test.ts, 'import paths')
ImportFixtures ==
    {Fixture("import", "rac", pre, path, "#", name, post) :
        pre \in {"  - ", "", "import "},
        path \in {"26/1411/c", "26/32", "7/a_1/b/c"},
        name \in {"net_investment_income", "eitc", "x1"},
        post \in {"", " as federal_eitc", " # note"}}

\* a word-bounded YYYY-MM-DD (rac.test.ts, 'dates'); b is `-MM` and c is `-DD`
Months == {"00", "01", "09", "10", "12", "13", "20"}
Days == {"00", "01", "09", "10", "29", "30", "31", "32", "40"}
DateFixtures ==
    {Fixture("date", "rac", ctx[1], "2024", "-" \o M, "-" \o D, ctx[2]) :
        ctx \in {<<"  date: ", "">>, <<"    ", ": 1000">>, <<"  d: -", "">>},
        M \in Months, D \in Days}

\* a listed word in the value position of an attribute line (rac.test.ts,
\* 'formula keywords' to 'data types' and 'YAML booleans')
BooleanWords == {"true", "false", "TRUE", "faLse"}
ValueFixtures ==
    {Fixture("value", "rac", "  ", attr, ": ", W, "") :
        attr \in {"formula", "default"},
        W \in Range(formulaKeywords) \cup Range(entityTypes) \cup Range(periodTypes)
              \cup Range(dataTypes) \cup BooleanWords}
    \cup {Fixture("value", "rac", "  ", "formula", ": ", W, "(x, y)") :
            W \in Range(formulaBuiltins)}
    \cup {Fixture("value", "rac", "  ", "entity", ": ", W, "") : W \in Range(entityTypes)}
    \cup {Fixture("value", "rac", "  ", "period", ": ", W, "") : W \in Range(periodTypes)}
    \cup {Fixture("value", "rac", "  ", "dtype", ": ", W, "") : W \in Range(dataTypes)}
    \cup {Fixture("value", "rac", "  ", "private", ": ", W, "") : W \in BooleanWords}

\* numeric literals (rac.test.ts and catala.test.ts, 'numbers'): a is the
\* sign, b the digits, c the percent sign
NumberFixtures ==
    {Fixture("number", l, IF l = "rac" THEN "  default: " ELSE "  ", sign, digits, pct, "") :
        l \in LanguageNames, sign \in {"", "-"},
        digits \in {"1000", "0.038", "34", "7.5", "0"}, pct \in {"", "%"}}
    \cup {Fixture("number", "rac", "  value: ", "", hex, "", "") : hex \in {"0xFF", "0x1f", "0x0"}}

\* the most characters or escapes in the body of a string literal of a fixture
MaxBody == 2

\* what the body of a literal quoted with q is made of: a character, a
\* comment marker, the other quote, and the escapes of q, of the backslash
\* and of a line feed
Atoms(l, q) ==
    {"a", "#", IF q = "\"" THEN "'" ELSE "\"", "\\" \o q, "\\\\", "\\\n"}
    \cup (IF l = "catala" THEN {"@"} ELSE {})

RECURSIVE Bodies(_, _, _)
Bodies(l, q, n) ==
    IF n = 0 THEN {""}
    ELSE Bodies(l, q, n - 1) \cup {x \o y : x \in Bodies(l, q, n - 1), y \in Atoms(l, q)}

\* quoted literals (rac.test.ts and catala.test.ts, 'strings')
StringFixtures ==
    UNION {{Fixture("string", lq[1], IF lq[1] = "rac" THEN "  label: " ELSE "  ",
                    lq[2], body, lq[2], "") : body \in Bodies(lq[1], lq[2], MaxBody)} :
           lq \in LanguageNames \X {"\"", "'"}}

\* a comment marker a and the comment text b after the content pre, as the
\* last line of the text or (c is the line feed) before the line post
\* (rac.test.ts and catala.test.ts, 'comments')
CommentTexts == {" This is a comment", " it's \"q\" 2024-01-01 // # x"}
CommentTails == {<<"", "">>, <<"\n", "  next: 1">>}
CommentFixtures ==
    {Fixture("comment", "rac", pre, mark, txt, tail[1], tail[2]) :
        pre \in {"", "  value: 100  ", "x = 5 > "}, mark \in {"#", "//"},
        txt \in CommentTexts, tail \in CommentTails}
    \cup {Fixture("comment", "catala", pre, "#", txt, tail[1], tail[2]) :
            pre \in {"", "  scope Foo ", "x -> 5 "}, txt \in CommentTexts,
            tail \in CommentTails}
    \cup {Fixture("comment", "rac", "import ", "#", " c", "\n", "foo:"),
          Fixture("comment", "catala", "scope ", "#", " c", "\n", "Foo")}

\* a # between the @ signs of a Catala title or section, or in a block comment
EnclosedMarkerFixtures ==
    {Fixture("enclosed", "catala", "@@Title ", "#", "1@@", "", ""),
     Fixture("enclosed", "catala", "@Article ", "#", "3@", "\n", "scope Foo"),
     Fixture("enclosed", "catala", "/* a ", "#", " b */", "\n", "scope Foo")}

\* an operator a between two identifier operands, with spaces (rac.test.ts
\* and catala.test.ts, 'operators')
RacOperators ==
    {"==", "!=", "<=", ">=", "=>", "+", "-", "*", "/", "<", ">", "=", "?"}
CatalaOperators ==
    {"==", "!=", "<=", ">=", "--", "->", "+", "-", "*", "/", "<", ">", "=", "!"}
OperatorFixtures ==
    {Fixture("operator", "rac", "  formula: " \o x \o " ", op, " ", y, post) :
        x \in {"x", "a_b"}, op \in RacOperators, y \in {"y", "rate2"},
        post \in {"", "\n  next: 1"}}
    \cup {Fixture("operator", "catala", "  " \o x \o " ", op, " ", y, post) :
            x \in {"x", "a_b"}, op \in CatalaOperators, y \in {"y", "rate2"},
            post \in {"", "\n  next z"}}

\* a block scalar indicator a at the end of its line, with white space b
\* after it (rac.test.ts, 'block scalars'), and a > between two operands
BlockScalarFixtures ==
    {Fixture("scalar", "rac", pre, ind, ws, "", post) :
        pre \in {"  formula: ", "  description: "}, ind \in {"|", ">"},
        ws \in {"", " ", " \t"}, post \in {"", "\n    long text"}}
    \cup {Fixture("compare", "rac", "  formula: x ", ">", " ", y, post) :
            y \in {"y", "5", "\"a\"", "'a'", "2024-01-01"}, post \in {"", "\n  next: 1"}}

\* @@T@@ and @S@ for T and S without @, and a title with a section on the
\* next line (catala.test.ts, 'catala-title tokens', 'catala-section tokens'
\* and 'should handle adjacent titles and sections')
Headings ==
    {"Article 1", "Income Tax Act - Part I", "Definitions", "Tax computation", "Title",
     "x", " ", "Title #1", "A\nB", "a /* b */ c", "it's \"q\"", "scope Foo", "-1"}
HeadingFixtures ==
    {Fixture("title", "catala", "", "@@", T, "@@", "") : T \in Headings}
    \cup {Fixture("section", "catala", "", "@", S, "@", "") : S \in Headings}
    \cup {Fixture("adjacent", "catala", "", "@@" \o T \o "@@", "\n", "@" \o S \o "@", "") :
            T \in {"Title", "Title #1", "x"}, S \in {"Section", "a /* b */ c", "x"}}

\* a keyword a of catalaKeywords as a whole word or phrase (catala.test.ts,
\* 'keywords'), a phrase written with other white space, and a keyword where
\* a scope declaration has its name
SpacedPhrases == {"under  condition", "such\nthat", "fixed\tby", "with \n pattern"}
KeywordFixtures ==
    {Fixture("kw", "catala", pre, kw, "", "", post) :
        pre \in {"  ", "  match x ", "(", "scope Foo "},
        kw \in Range(catalaKeywords) \cup SpacedPhrases,
        post \in {"", " x", ")", "\n  y"}}
    \cup {Fixture("kwname", "catala", pre, kw, "", "", "") :
            pre \in {"scope ", "declaration scope "}, kw \in Range(catalaKeywords)}

\* `scope NAME` and `declaration scope NAME` (catala.test.ts, 'scope names'):
\* a is the words before the name, b the white space, c the name
ScopeNames == {"Foo", "TaxBenefit", "foo_2", "X", "money", "content", "scope", "declaration"}
ScopeFixtures ==
    {Fixture("scope", "catala", pre, a, b, c, post) :
        pre \in {"", "  ", "x\n"}, a \in {"scope", "declaration scope"},
        b \in {" ", "\t"}, c \in ScopeNames,
        post \in {"", ":", "\n  definition x equals 1"}}

\* a type name a as a whole word (catala.test.ts, 'type names')
TypeFixtures ==
    {Fixture("type", "catala", pre, ty, "", "", post) :
        pre \in {"  content ", "  ", "("}, ty \in Range(typeNames),
        post \in {"", " x", ")"}}

\* a block comment a after the content pre and before the text post
\* (catala.test.ts, 'comments'), and a block comment whose opening mark is
\* inside a line comment, a title, a section or a string literal
BlockComments ==
    {"/* This is a block comment */", "/* This is\na multiline\ncomment */", "/**/",
     "/* a # b\n c */", "/* it's \"q\" @x@ /* */"}
BlockCommentFixtures ==
    {Fixture("block", "catala", pre, txt, "", "", post) :
        pre \in {"", "  scope Foo ", "x = 1 "}, txt \in BlockComments,
        post \in {"", " x */", "\nscope Foo", " /* y */", " x's y"}}
    \cup {Fixture("blockin", "catala", "# ", "/* a\n b */", "", "", ""),
          Fixture("blockin", "catala", "@@T ", "/* a */", "", "", "@@"),
          Fixture("blockin", "catala", "@S ", "/* a */", "", "", "@"),
          Fixture("blockin", "catala", "x = \"", "/* a\" */", "", "", "")}

\* the texts of the 'edge cases' of rac.test.ts and catala.test.ts, texts
\* with no construct of the languages and openers that nothing closes
EdgeTexts ==
    {"", "   \n\n  ", "description: hello", "parameter standalone",
     "This is just some legal text without any code.", "hello world", "\n", "x",
     "\"", "'", "\\", "@", "@@", "/*", "import", "@@@@"}
EdgeFixtures ==
    {Fixture("edge", l, "", t, "", "", "") : l \in LanguageNames, t \in EdgeTexts}

\* an attribute key b at column 0 of its line, bare or after a dash
\* (rac.test.ts, 'should not confuse attribute keys outside indented context')
\* and an attribute key b after white space that is not at the start of its
\* line: after a declaration and after a string literal
KeyPlaceFixtures ==
    {Fixture("col0", "rac", pre, dash, A, ":", " hello") :
        pre \in {"", "text t:\n"}, dash \in {"", "- "}, A \in Range(attributeKeys)}
    \cup {Fixture("midline", "rac", pre, "", A, ":", " x") :
            pre \in {"text: ", "\"a # b\"\t"}, A \in Range(attributeKeys)}

\* a section keyword b after indentation a, with a name or without (c), as
\* the first line or after a line that is a section keyword alone; and a
\* section keyword a alone on its line before an indented attribute line
\* (rac.test.ts, 'top-level declarations' and 'should handle declaration
\* without colon gracefully')
DeclPlaceFixtures ==
    {Fixture("indecl", "rac", pre, ind, K, nm, ":") :
        pre \in {"", "text\n"}, ind \in {"  ", "\t"}, K \in Range(sectionKeywords),
        nm \in {" x", ""}}
    \cup {Fixture("nextline", "rac", "", K, sep, A, ": \"x\"") :
            K \in Range(sectionKeywords), sep \in {"\n  ", "\n\n\t"},
            A \in {"description", "name"}}

\* a literal quoted with a whose body b holds a comment marker, after the
\* content pre and before post, which may be a comment that holds quotes
QuotedMarkerFixtures ==
    {Fixture("quoted", l, pre, q, body, q, post) :
        l \in LanguageNames, pre \in {"  ", "it"}, q \in {"\"", "'"},
        body \in {"a # b", "http://x", "# a", "a /* b */", "s # don"},
        post \in {"", " x", " # c \"d\" 'e'"}}

\* an identifier a b c that holds the listed word b, in a formula; post is
\* what follows the identifier (rac.test.ts, 'formula builtins': "in" inside
\* "min")
WordFixtures ==
    {Fixture("word", "rac", "  formula: ", ac[1], W, ac[2], post) :
        ac \in {<<"x_", "">>, <<"", "_x">>, <<"", "s">>, <<"a", "">>, <<"", "2">>},
        W \in Range(formulaKeywords) \cup Range(formulaBuiltins) \cup Range(entityTypes)
              \cup Range(periodTypes) \cup Range(dataTypes) \cup {"true", "false"},
        post \in {"", " + 1"}}
    \cup {Fixture("word", "rac", "  formula: ", ac[1], ac[2], ac[3], "(x)") :
            ac \in {<<"m", "in", "">>, <<"", "max", "_rate">>, <<"", "for", "mat">>,
                    <<"", "Year", "ly">>, <<"", "in", "dex">>}}
    \cup {Fixture("word", "rac", "  formula: ", "", W, "26", "/32#eitc") :
            W \in {"min", "in", "Person", "true"}}

\* one short text for each token class, taken from the tests of the class
\* (rac.test.ts and catala.test.ts) and from the two full examples
RacExamples ==
    {"# IRC Section 1411", "parameter niit_rate:", "  description: x", "  - name: 1",
     "    - 26/32#eitc as federal_eitc", "    2013-01-01: 0.038", "  label: \"a\"",
     "  formula: |", "    if agi > threshold:", "      return min(nii, agi)",
     "  entity: TaxUnit", "  period: Year", "  dtype: Money", "  private: true"}
CatalaExamples ==
    {"@@Income tax@@", "@Taxable income@", "# Compute the income tax", "/* a block */",
     "  label \"a\"", "declaration scope IncomeTax:", "  context income content money",
     "  definition tax_rate equals 0.30", "    not (income > $100000)"}
ExampleFixtures ==
    {Fixture("example", "rac", "", t, "", "", "") : t \in RacExamples}
    \cup {Fixture("example", "catala", "", t, "", "", "") : t \in CatalaExamples}

Fixtures ==
    DeclFixtures \cup AttrFixtures \cup ImportFixtures \cup DateFixtures \cup ValueFixtures
    \cup NumberFixtures \cup StringFixtures \cup CommentFixtures \cup EnclosedMarkerFixtures \cup OperatorFixtures \cup BlockScalarFixtures \cup HeadingFixtures \cup KeywordFixtures \cup ScopeFixtures \cup TypeFixtures \cup BlockCommentFixtures \cup EdgeFixtures \cup ExampleFixtures \cup KeyPlaceFixtures \cup DeclPlaceFixtures \cup QuotedMarkerFixtures \cup WordFixtures

\* ------------------------------------------------------------ the program

\* the tokenize calls a behaviour makes at most
MaxCalls == 1

Packages == {"prism-rac", "prism-catala"}

Init ==
    /\ loaded = <<>>
    /\ languages = [l \in LanguageNames |-> "undefined"]
    /\ pc = "idle"
    /\ fx = Fixture("none", "", "", "", "", "", "")
    /\ lang = ""
    /\ code = ""
    /\ gname = ""
    /\ tokens = <<>>
    /\ idx = 0
    /\ calls = 0
    /\ global = {}

\* import of packages/prism-rac/src/index.ts: it registers its RAC grammar
\* and its own Catala grammar
ImportPrismRac ==
    /\ pc = "idle"
    /\ "prism-rac" \notin Range(loaded)
    /\ loaded' = Append(loaded, "prism-rac")
    /\ languages' = [languages EXCEPT !["rac"] = "racGrammar", !["catala"] = "racCatalaGrammar"]
    /\ UNCHANGED <<pc, fx, lang, code, gname, tokens, idx, calls, global>>

\* import of packages/prism-catala/src/index.ts: it registers its Catala grammar
ImportPrismCatala ==
    /\ pc = "idle"
    /\ "prism-catala" \notin Range(loaded)
    /\ loaded' = Append(loaded, "prism-catala")
    /\ languages' = [languages EXCEPT !["catala"] = "catalaGrammar"]
    /\ UNCHANGED <<pc, fx, lang, code, gname, tokens, idx, calls, global>>

\* Prism.tokenize(code, Prism.languages[l]), up to the call of matchGrammar:
\* the token list holds the text
CallTokenize ==
    /\ pc = "idle"
    /\ calls < MaxCalls
    /\ \E f \in Fixtures :
        /\ languages[f.lang] # "undefined"
        /\ fx' = f
        /\ lang' = f.lang
        /\ code' = Text(f)
        /\ gname' = languages[f.lang]
        /\ tokens' = <<Plain(Text(f))>>
    /\ idx' = 1
    /\ pc' = "run"
    /\ calls' = calls + 1
    /\ UNCHANGED <<loaded, languages, global>>

\* a pass that stays at its pattern
ApplyPattern_samePattern ==
    /\ pc = "run"
    /\ idx <= Len(GrammarOf(gname))
    /\ LET r == NodeLoop(code, GrammarOf(gname), idx, tokens, 1, 0, FALSE, 0, 0)
       IN /\ tokens' = r.toks
          /\ idx' = idx
    /\ UNCHANGED <<loaded, languages, pc, fx, lang, code, gname, calls, global>>

\* one pass of matchGrammar's loops: pattern idx over the whole token list.
\* Before the pass, a greedy pattern whose RegExp is not global is replaced
\* by RegExp(pattern.source, flags + 'g'), so that lastIndex is honoured.
ApplyPattern ==
    /\ pc = "run"
    /\ idx <= Len(GrammarOf(gname))
    /\ global' = IF GrammarOf(gname)[idx].greedy THEN global \cup {<<gname, idx>>} ELSE global
    /\ LET r == NodeLoop(code, GrammarOf(gname), idx, tokens, 1, 0, FALSE, 0, 0)
       IN /\ tokens' = r.toks
          /\ idx' = IF r.abort THEN Len(GrammarOf(gname)) + 1 ELSE idx + 1
    /\ UNCHANGED <<loaded, languages, pc, fx, lang, code, gname, calls>>

\* matchGrammar returns: tokenize has its array
Finish ==
    /\ pc = "run"
    /\ idx > Len(GrammarOf(gname))
    /\ pc' = "done"
    /\ UNCHANGED <<loaded, languages, fx, lang, code, gname, tokens, idx, calls, global>>

\* a return that takes the grammar of the call out of Prism.languages
Return_unregisters ==
    /\ pc = "done"
    /\ pc' = "idle"
    /\ languages' = [languages EXCEPT ![lang] = "undefined"]
    /\ fx' = Fixture("none", "", "", "", "", "", "")
    /\ lang' = ""
    /\ code' = ""
    /\ gname' = ""
    /\ tokens' = <<>>
    /\ idx' = 0
    /\ UNCHANGED <<loaded, calls, global>>

\* the caller takes the array
Return ==
    /\ pc = "done"
    /\ pc' = "idle"
    /\ fx' = Fixture("none", "", "", "", "", "", "")
    /\ lang' = ""
    /\ code' = ""
    /\ gname' = ""
    /\ tokens' = <<>>
    /\ idx' = 0
    /\ UNCHANGED <<loaded, languages, calls, global>>

Next ==
    \/ ImportPrismRac
    \/ ImportPrismCatala
    \/ CallTokenize
    \/ ApplyPattern
    \/ Finish
    \/ Return

Spec == Init /\ [][Next]_vars

\* Calls that follow one another: the tokenize calls a behaviour of
\* RepeatSpec makes at most, and the texts they are given
MaxRepeat == 3
RepeatTexts == {"", "# c", "x = \"a\" # c", "@@T@@ 5", "parameter p:"}
RepeatFixtures ==
    {Fixture("repeat", l, "", t, "", "", "") : l \in LanguageNames, t \in RepeatTexts}

\* Prism.tokenize(code, Prism.languages[l]) for one of the texts above
CallAgain ==
    /\ pc = "idle"
    /\ calls < MaxRepeat
    /\ \E f \in RepeatFixtures :
        /\ languages[f.lang] # "undefined"
        /\ fx' = f
        /\ lang' = f.lang
        /\ code' = Text(f)
        /\ gname' = languages[f.lang]
        /\ tokens' = <<Plain(Text(f))>>
    /\ idx' = 1
    /\ pc' = "run"
    /\ calls' = calls + 1
    /\ UNCHANGED <<loaded, languages, global>>

RepeatNext ==
    \/ ImportPrismRac
    \/ ImportPrismCatala
    \/ CallAgain
    \/ ApplyPattern
    \/ Finish
    \/ Return

RepeatSpec == Init /\ [][RepeatNext]_vars

\* the result of the running call, flattened
Result == Flat(tokens)
Has(type, content) == \E i \in DOMAIN Result : Result[i] = [type |-> type, content |-> content]
\* --------------------------------------------------------------- claims

\* the leaves of the result of type ty
CountOf(ty) == Cardinality({i \in DOMAIN Result : Result[i].type = ty})
\* a leaf (type ty, content c) whose text starts at offset at of the code
HasAt(ty, c, at) ==
    \E i \in DOMAIN Result :
        /\ Result[i] = [type |-> ty, content |-> c]
        /\ StartOf(Result, i) = at

\* C1: with the RAC grammar, the line `K N:` at column 0, K a section keyword
\* and N a name of word characters, gives one section-keyword token, whose
\* content is K, and one declaration-name token, whose content is N.
C1_SectionKeywordAndName ==
    (pc = "done" /\ fx.kind = "decl") =>
        /\ HasAt("section-keyword", fx.a, 0)
        /\ HasAt("declaration-name", fx.c, Len(fx.a) + 1)
        /\ CountOf("section-keyword") = 1
        /\ CountOf("declaration-name") = 1

C1_Witness ==
    /\ pc = "done" /\ fx.kind = "decl" /\ fx.a = "versions" /\ fx.c = "version"
    /\ Has("section-keyword", "versions")
    /\ Has("declaration-name", "version")

\* C2: with the RAC grammar, indentation, an optional `- `, an attribute key A
\* and `:` give one attr-name token, whose content is A alone.
C2_AttrName ==
    (pc = "done" /\ fx.kind = "attr") =>
        /\ HasAt("attr-name", fx.b, Len(fx.pre) + Len(fx.a))
        /\ CountOf("attr-name") = 1

C2_Witness ==
    /\ pc = "done" /\ fx.kind = "attr" /\ fx.pre = "\t" /\ fx.a = "- "
    /\ fx.b = "enacted_by"
    /\ Has("attr-name", "enacted_by")

\* C3: with the RAC grammar, an import path (digits, `/segment` parts, `#name`)
\* is one import-path token holding the whole path, with or without ` as alias`
\* after it, and no comment token starts inside the path.
C3_ImportPath ==
    (pc = "done" /\ fx.kind = "import") =>
        LET path == fx.a \o fx.b \o fx.c
        IN /\ HasAt("import-path", path, Len(fx.pre))
           /\ \A i \in DOMAIN Result :
                Result[i].type = "comment" => StartOf(Result, i) >= Len(fx.pre) + Len(path)

C3_Witness ==
    /\ pc = "done" /\ fx.kind = "import" /\ fx.post = " as federal_eitc"
    /\ Has("import-path", "26/32#eitc")
    /\ Has("keyword", "as")
\* a token of the list before the step is still in the list after it, with
\* the same class, text, nested tokens and position
Kept(k) ==
    \E j \in DOMAIN tokens' :
        /\ tokens'[j] = tokens[k]
        /\ StartOf(tokens', j) = StartOf(tokens, k)

\* token k of the list before the step lies under a token of class ty of the
\* list after it, which starts before k, in text that was in no token
Overrun(k, ty) ==
    \E j \in DOMAIN tokens' :
        /\ tokens'[j].type = ty
        /\ StartOf(tokens', j) < StartOf(tokens, k)
        /\ StartOf(tokens, k) < StartOf(tokens', j) + Len(tokens'[j].content)

\* the classes whose rules are declared with greedy: true
GreedyClasses ==
    {"comment", "import-path", "date", "string", "catala-title", "catala-section"}

\* C4 (as stated): no step of a rule takes text away from a token that an
\* earlier rule produced: every token of another rule is kept by every step.
C4_LaterRuleNeverTakes ==
    [][ApplyPattern =>
        \A k \in DOMAIN tokens :
            (IsToken(tokens[k]) /\ tokens[k].type # GrammarOf(gname)[idx].type) => Kept(k)]_vars

\* C4 (amended): a step of a rule that is not greedy keeps every token; a step
\* of a greedy rule (comment, import-path, date, string, Catala title and
\* section) keeps a token or replaces it by a token of its own class whose
\* match began before it, in text that was in no token.
C4_OnlyGreedyRulesTake ==
    [][ApplyPattern =>
        \A k \in DOMAIN tokens : IsToken(tokens[k]) =>
            \/ Kept(k)
            \/ /\ GrammarOf(gname)[idx].type \in GreedyClasses
               /\ Overrun(k, GrammarOf(gname)[idx].type)]_vars

C4_Witness ==
    /\ pc = "run" /\ fx.kind = "import" /\ fx.post = " # note"
    /\ idx <= Len(GrammarOf(gname))
    /\ GrammarOf(gname)[idx].type = "date"
    /\ \E k \in DOMAIN tokens : tokens[k].type = "import-path" /\ tokens[k].content = fx.a \o fx.b \o fx.c
    /\ \E k \in DOMAIN tokens : tokens[k].type = "comment" /\ tokens[k].content = "# note"
\* the months and days of the calendar, as two digits
ValidMonths == {"01", "02", "03", "04", "05", "06", "07", "08", "09", "10", "11", "12"}
ValidDays ==
    {"01", "02", "03", "04", "05", "06", "07", "08", "09", "10", "11", "12", "13", "14",
     "15", "16", "17", "18", "19", "20", "21", "22", "23", "24", "25", "26", "27", "28",
     "29", "30", "31"}

\* a leaf of class ty starts in the text from offset from up to offset to
StartsWithin(ty, from, to) ==
    \E i \in DOMAIN Result :
        /\ Result[i].type = ty
        /\ from <= StartOf(Result, i)
        /\ StartOf(Result, i) < to

\* C5: with the RAC grammar, a word-bounded `YYYY-MM-DD` gives a date token
\* exactly when MM is 01..12 and DD is 01..31; the token is the whole date, and
\* no number or operator token lies in the date.
C5_DateToken ==
    (pc = "done" /\ fx.kind = "date") =>
        LET whole == fx.a \o fx.b \o fx.c
            at == Len(fx.pre)
            valid == /\ SubSeq(fx.b, 2, 3) \in ValidMonths
                     /\ SubSeq(fx.c, 2, 3) \in ValidDays
        IN /\ valid <=> CountOf("date") > 0
           /\ valid =>
                /\ HasAt("date", whole, at)
                /\ ~StartsWithin("number", at, at + Len(whole))
                /\ ~StartsWithin("operator", at, at + Len(whole))

C5_Witness ==
    /\ pc = "done" /\ fx.kind = "date" /\ fx.pre = "    " /\ fx.post = ": 1000"
    /\ Has("date", "2024-12-31")
    /\ Has("number", "1000")

\* the word lists of the RAC grammar and the class of each
ListClasses ==
    {<<formulaKeywords, "keyword">>, <<formulaBuiltins, "builtin">>,
     <<entityTypes, "entity-type">>, <<periodTypes, "period-type">>,
     <<dataTypes, "dtype">>}
ClassesOf(W) == {lc[2] : lc \in {x \in ListClasses : W \in Range(x[1])}}
ListWords == UNION {Range(lc[1]) : lc \in ListClasses}

\* C6: with the RAC grammar, a word of formulaKeywords, formulaBuiltins,
\* entityTypes, periodTypes or dataTypes in the value position of an attribute
\* line is a token of class keyword, builtin, entity-type, period-type or dtype
\* respectively, whose content is the word, and no token of the line has one of
\* these classes otherwise.
C6_WordListClass ==
    (pc = "done" /\ fx.kind = "value" /\ fx.c \in ListWords) =>
        /\ \E ty \in ClassesOf(fx.c) : HasAt(ty, fx.c, Len(fx.pre) + Len(fx.a) + Len(fx.b))
        /\ \A i \in DOMAIN Result :
            Result[i].type \in {lc[2] : lc \in ListClasses} =>
                /\ Result[i].content = fx.c
                /\ ClassesOf(fx.c) = {Result[i].type}

C6_Witness ==
    /\ pc = "done" /\ fx.kind = "value" /\ fx.c = "TaxUnit" /\ fx.a = "entity"
    /\ Has("entity-type", "TaxUnit")
    /\ Has("attr-name", "entity")

\* C7: with the RAC grammar, `true` and `false` are boolean tokens, and `True`
\* and `False` are keyword tokens and not boolean tokens.
C7_BooleanOrKeyword ==
    (pc = "done" /\ fx.kind = "value") =>
        LET at == Len(fx.pre) + Len(fx.a) + Len(fx.b)
        IN /\ fx.c \in {"true", "false"} =>
                HasAt("boolean", fx.c, at) /\ CountOf("keyword") = 0
           /\ fx.c \in {"True", "False"} =>
                HasAt("keyword", fx.c, at) /\ CountOf("boolean") = 0

C7_Witness ==
    /\ pc = "done" /\ fx.kind = "value" /\ fx.c = "True"
    /\ Has("keyword", "True")
    /\ CountOf("boolean") = 0

\* C8: with racGrammar and with prism-catala's catalaGrammar, an integer, a
\* float, a percentage with its `%` and a negative literal with its `-` are one
\* number token holding the whole literal, with no operator token; with
\* racGrammar so is a hex literal.
C8_NumberLiteral ==
    (pc = "done" /\ fx.kind = "number" /\ gname \in {"racGrammar", "catalaGrammar"}) =>
        /\ HasAt("number", fx.a \o fx.b \o fx.c, Len(fx.pre))
        /\ CountOf("number") = 1
        /\ CountOf("operator") = 0

C8_Witness ==
    /\ pc = "done" /\ fx.kind = "number" /\ gname = "catalaGrammar"
    /\ fx.a = "-" /\ fx.c = "%"
    /\ Has("number", "-7.5%")

\* C9: in both grammars, a double-quoted or single-quoted literal, backslash
\* escapes in its body included, is one string token, whose content is the
\* literal from its opening quote to its closing quote.
C9_QuotedLiteral ==
    (pc = "done" /\ fx.kind = "string") =>
        HasAt("string", fx.a \o fx.b \o fx.c, Len(fx.pre))
\* the tokens of a result that start before offset n, each with its offset
TokensBefore(leaves, n) ==
    {<<StartOf(leaves, i), leaves[i]>> :
        i \in {j \in DOMAIN leaves : leaves[j].type # "plain" /\ StartOf(leaves, j) < n}}

\* a string holds a line terminator
HasLineBreak(str) == \E i \in 1..Len(str) : Ch(str, i) \in LineTerm

NoLineBreakInComment ==
    \A i \in DOMAIN Result : Result[i].type = "comment" => ~HasLineBreak(Result[i].content)

\* C10 (as stated): the text from a `#` or `//` marker outside any string and
\* import path to the end of its line is one comment token, the tokens before
\* the marker are those of the text without the comment, and no comment token
\* holds a line break.
C10_CommentToEndOfLine ==
    (pc = "done" /\ fx.kind \in {"comment", "enclosed"}) =>
        /\ HasAt("comment", fx.a \o fx.b, Len(fx.pre))
        /\ TokensBefore(Result, Len(fx.pre))
             = TokensBefore(Flat(Tokenize(fx.pre \o fx.c \o fx.post, GrammarOf(gname))),
                            Len(fx.pre))
        /\ NoLineBreakInComment

\* C10 (amended): the text from a marker that is also outside any Catala
\* title, section and block comment to the end of its line is one comment
\* token, the tokens before the marker are those of the text that ends just
\* before the marker, and no comment token holds a line break; a marker inside
\* a Catala title, section or block comment is part of that token.
C10_CommentOutsideEnclosures ==
    /\ (pc = "done" /\ fx.kind = "comment") =>
        /\ HasAt("comment", fx.a \o fx.b, Len(fx.pre))
        /\ TokensBefore(Result, Len(fx.pre))
             = TokensBefore(Flat(Tokenize(fx.pre, GrammarOf(gname))), Len(fx.pre))
        /\ NoLineBreakInComment
    /\ (pc = "done" /\ fx.kind = "enclosed" /\ gname = "catalaGrammar") =>
        /\ ~StartsWithin("comment", Len(fx.pre), Len(fx.pre) + 1)
        /\ \E i \in DOMAIN Result :
            /\ Result[i].type \in {"catala-title", "catala-section", "comment"}
            /\ StartOf(Result, i) = 0
            /\ Len(Result[i].content) = Len(fx.pre \o fx.a \o fx.b)

C10_Witness ==
    /\ pc = "done" /\ fx.kind = "comment" /\ gname = "racGrammar"
    /\ fx.pre = "  value: 100  " /\ fx.a = "//" /\ fx.c = "\n"
    /\ Has("comment", "// This is a comment")
    /\ Has("number", "100")
    /\ Has("number", "1")

\* C11: in both grammars, an operator of the tests' lists between two
\* identifier operands, with spaces around it, is one operator token whose
\* content is the operator, and the line has no other operator token (a
\* two-character operator is not split).
C11_OperatorToken ==
    (pc = "done" /\ fx.kind = "operator") =>
        /\ HasAt("operator", fx.a, Len(fx.pre))
        /\ CountOf("operator") = 1

C11_Witness ==
    /\ pc = "done" /\ fx.kind = "operator" /\ gname = "racGrammar"
    /\ fx.a = "=>" /\ fx.post = ""
    /\ Has("operator", "=>")
    /\ ~Has("operator", "=")

\* C12: with the RAC grammar, a `|` or `>` with only white space after it up
\* to the end of its line is a block-scalar token and not an operator token,
\* and a `>` with an operand after it on its line is an operator token.
C12_BlockScalarOrOperator ==
    /\ (pc = "done" /\ fx.kind = "scalar") =>
        /\ HasAt("block-scalar", fx.a, Len(fx.pre))
        /\ ~HasAt("operator", fx.a, Len(fx.pre))
    /\ (pc = "done" /\ fx.kind = "compare") =>
        /\ HasAt("operator", fx.a, Len(fx.pre))
        /\ ~HasAt("block-scalar", fx.a, Len(fx.pre))

\* C13: with the Catala grammar, `@@T@@` (T not empty, without `@`) is one
\* catala-title token holding the whole text and gives no catala-section
\* token; `@S@` is one catala-section token holding the whole text; a title
\* with a section on the next line gives one token of each class.
C13_TitleAndSection ==
    /\ (pc = "done" /\ fx.kind = "title") =>
        /\ Result = <<[type |-> "catala-title", content |-> code]>>
        /\ CountOf("catala-section") = 0
    /\ (pc = "done" /\ fx.kind = "section") =>
        /\ Result = <<[type |-> "catala-section", content |-> code]>>
    /\ (pc = "done" /\ fx.kind = "adjacent") =>
        /\ HasAt("catala-title", fx.a, 0)
        /\ HasAt("catala-section", fx.c, Len(fx.a) + 1)
        /\ CountOf("catala-title") = 1
        /\ CountOf("catala-section") = 1

C13_Witness ==
    /\ pc = "done" /\ fx.kind = "adjacent" /\ gname = "catalaGrammar"
    /\ Has("catala-title", "@@Title@@")
    /\ Has("catala-section", "@Section@")

\* the first word of a phrase
FirstWord(k) == SubSeq(k, 1, RunLen(Set(WordCh), k, 1))

\* C14 (as stated): with the Catala grammar of prism-catala, a keyword of
\* catalaKeywords as a whole word or phrase outside comments, strings, titles
\* and sections is one keyword token holding the keyword.
C14_KeywordEverywhere ==
    (pc = "done" /\ fx.kind \in {"kw", "kwname"} /\ gname = "catalaGrammar") =>
        HasAt("keyword", fx.a, Len(fx.pre))

\* C14 (amended): the same for a keyword that is not the word after `scope`
\* in a scope declaration. There `scope` and `declaration` are keyword
\* tokens, and the first word of any other keyword is a scope-name token and
\* the keyword is no keyword token.
C14_KeywordOutsideScopeName ==
    /\ (pc = "done" /\ fx.kind = "kw" /\ gname = "catalaGrammar") =>
        HasAt("keyword", fx.a, Len(fx.pre))
    /\ (pc = "done" /\ fx.kind = "kwname" /\ gname = "catalaGrammar") =>
        IF fx.a \in {"scope", "declaration"}
        THEN HasAt("keyword", fx.a, Len(fx.pre))
        ELSE /\ HasAt("scope-name", FirstWord(fx.a), Len(fx.pre))
             /\ ~HasAt("keyword", fx.a, Len(fx.pre))

C14_Witness ==
    /\ pc = "done" /\ fx.kind = "kw" /\ gname = "catalaGrammar"
    /\ fx.a = "such\nthat" /\ fx.pre = "  match x " /\ fx.post = " x"
    /\ Has("keyword", "such\nthat")
    /\ Has("keyword", "match")

\* the words `declaration` and `scope` of a scope fixture are keyword tokens
ScopeWordsAreKeywords ==
    IF fx.a = "scope"
    THEN HasAt("keyword", "scope", Len(fx.pre))
    ELSE /\ HasAt("keyword", "declaration", Len(fx.pre))
         /\ HasAt("keyword", "scope", Len(fx.pre) + Len("declaration "))

\* C15 (as stated): with the Catala grammar of prism-catala, in `scope NAME`
\* and `declaration scope NAME` the word NAME is a scope-name token holding
\* NAME, and `declaration` and `scope` before it are keyword tokens.
C15_ScopeNameAnyWord ==
    (pc = "done" /\ fx.kind = "scope" /\ gname = "catalaGrammar") =>
        /\ HasAt("scope-name", fx.c, Len(fx.pre \o fx.a \o fx.b))
        /\ ScopeWordsAreKeywords

\* C15 (amended): the same for a NAME other than `scope` and `declaration`;
\* these two words as NAME are keyword tokens and there is no scope-name.
C15_ScopeName ==
    (pc = "done" /\ fx.kind = "scope" /\ gname = "catalaGrammar") =>
        /\ ScopeWordsAreKeywords
        /\ IF fx.c \in {"scope", "declaration"}
           THEN /\ HasAt("keyword", fx.c, Len(fx.pre \o fx.a \o fx.b))
                /\ CountOf("scope-name") = 0
           ELSE /\ HasAt("scope-name", fx.c, Len(fx.pre \o fx.a \o fx.b))
                /\ CountOf("scope-name") = 1

C15_Witness ==
    /\ pc = "done" /\ fx.kind = "scope" /\ gname = "catalaGrammar"
    /\ fx.a = "declaration scope" /\ fx.c = "TaxBenefit" /\ fx.post = ":"
    /\ Has("scope-name", "TaxBenefit")
    /\ Has("keyword", "declaration")
    /\ Has("keyword", "scope")
    /\ Has("punctuation", ":")

\* C16: with the grammar registered under `catala`, a type name as a whole
\* word is a type-name token and not a keyword token.
C16_TypeName ==
    (pc = "done" /\ fx.kind = "type") =>
        /\ HasAt("type-name", fx.a, Len(fx.pre))
        /\ ~HasAt("keyword", fx.a, Len(fx.pre))

\* C17 (as stated): with the Catala grammar of prism-catala, the text from
\* any `/*` to the first `*/` after it is one comment token.
C17_BlockCommentAnywhere ==
    (pc = "done" /\ fx.kind \in {"block", "blockin"} /\ gname = "catalaGrammar") =>
        HasAt("comment", fx.a, Len(fx.pre))

\* C17 (amended): with the Catala grammar of prism-catala, a block comment
\* whose `/*` is outside line comments, titles, sections and string literals
\* is one comment token from `/*` to the first `*/`, line breaks included,
\* and the text after that `*/` is tokenized on its own; a `/*` inside one of
\* those constructs starts no comment token.
C17_BlockComment ==
    /\ (pc = "done" /\ fx.kind = "block" /\ gname = "catalaGrammar") =>
        /\ HasAt("comment", fx.a, Len(fx.pre))
        /\ IF fx.post = " /* y */"
           THEN /\ HasAt("comment", "/* y */", Len(fx.pre \o fx.a) + 1)
                /\ CountOf("comment") = 2
           ELSE CountOf("comment") = 1
        /\ (fx.post = " x */") =>
               /\ HasAt("operator", "*", Len(fx.pre \o fx.a) + 3)
               /\ HasAt("operator", "/", Len(fx.pre \o fx.a) + 4)
    /\ (pc = "done" /\ fx.kind = "blockin" /\ gname = "catalaGrammar") =>
        ~HasAt("comment", fx.a, Len(fx.pre))

C17_Witness ==
    /\ pc = "done" /\ fx.kind = "block" /\ gname = "catalaGrammar"
    /\ fx.pre = "  scope Foo " /\ fx.post = " x */"
    /\ Has("comment", "/* This is\na multiline\ncomment */")
    /\ Has("scope-name", "Foo")
    /\ Has("operator", "*")

RECURSIVE Concat(_)
\* the contents of a sequence of leaves, joined
Concat(leaves) == IF Len(leaves) = 0 THEN "" ELSE leaves[1].content \o Concat(Tail(leaves))

\* no pattern of grammar G matches anywhere in text t
NoRuleMatches(t, G) == \A i \in DOMAIN G : ExecFrom(G[i].re, t, 0) = NoMatch

\* the result of a call is an array of strings and tokens that holds the text
ReturnsTheText ==
    (pc = "done") => /\ Len(tokens) >= 1
                     /\ Concat(Result) = code

\* an edge text that no pattern matches comes back as one plain string
UnmatchedIsPlain ==
    (pc = "done" /\ fx.kind = "edge" /\ NoRuleMatches(code, GrammarOf(gname))) =>
        Result = <<[type |-> "plain", content |-> code]>>

\* C18: tokenizing is total: a call with a registered grammar ends, for every
\* text (the empty text, white space, text with no construct, an unindented
\* attribute key, a declaration keyword without colon), with an array that
\* holds the text; a text that no rule matches comes back as plain text with
\* no token.
\* A running call is at a pattern of its grammar or past the last one, and
\* each of its steps moves to a later pattern or returns, so a call ends
\* after at most one step for each pattern.
C18_TokenizeIsTotal ==
    [][/\ (pc' = "run") => idx' \in 1..(Len(GrammarOf(gname')) + 1)
       /\ (pc = "run") => \/ pc' = "run" /\ idx' > idx
                          \/ pc' = "done" /\ idx > Len(GrammarOf(gname))
       /\ ReturnsTheText'
       /\ UnmatchedIsPlain']_vars

C18_Witness ==
    /\ pc = "done" /\ fx.kind = "edge" /\ gname = "racGrammar" /\ code = ""
    /\ NoRuleMatches(code, racGrammar)
    /\ tokens = <<Plain("")>>

\* a step of a tokenize call
TokenizeStep == pc # "idle" \/ pc' # "idle"

C20_RegisteredIsExported ==
    /\ ("prism-rac" \in Range(loaded)) => languages["rac"] = "racGrammar"
    /\ ("prism-catala" \in Range(loaded)) => languages["catala"] = "catalaGrammar"

\* C21: the headers `parameter NAME:` and `variable NAME:` give no
\* section-keyword token and the indented key `formula:` gives no attr-name
\* token, while the current declaration keywords and attribute keys do.
C21_RemovedConstructsUnmatched ==
    /\ (pc = "done" /\ fx.kind = "decl") =>
           IF fx.a \in {"parameter", "variable"}
           THEN CountOf("section-keyword") = 0
           ELSE (fx.a \in {"text", "enum", "function", "versions", "module", "version",
                           "jurisdiction", "import", "references"})
                    => HasAt("section-keyword", fx.a, 0)
    /\ (pc = "done" /\ fx.kind = "attr") =>
           IF fx.b = "formula"
           THEN CountOf("attr-name") = 0
           ELSE (fx.b \in {"description", "unit", "source", "reference", "imports", "entity",
                           "period", "dtype", "label", "default", "name", "metadata",
                           "enacted_by", "reverts_to", "parameters", "threshold", "cap",
                           "defined_for", "private", "internal"})
                    => HasAt("attr-name", fx.b, Len(fx.pre) + Len(fx.a))

\* the token classes grammar G declares, those of its nested grammars included
DeclaredClasses(G) ==
    {G[i].type : i \in DOMAIN G}
        \cup UNION {{G[i].inside[j].type : j \in DOMAIN G[i].inside} : i \in DOMAIN G}

\* the classes of the tokens of a token list, nested tokens included
ClassesIn(toks) ==
    {toks[i].type : i \in {k \in DOMAIN toks : IsToken(toks[k])}}
        \cup UNION {{toks[i].inside[j].type :
                        j \in {k \in DOMAIN toks[i].inside : IsToken(toks[i].inside[k])}} :
                    i \in DOMAIN toks}

\* the classes that the examples of language l give under grammar G
ExampleClasses(l, G) ==
    UNION {ClassesIn(Tokenize(Text(f), G)) : f \in {e \in ExampleFixtures : e.lang = l}}

\* the classes the examples give under each of the three grammars
RacExampleClasses == ExampleClasses("rac", racGrammar)
CatalaExampleClasses == ExampleClasses("catala", catalaGrammar)
RacCatalaExampleClasses == ExampleClasses("catala", racCatalaGrammar)
ExampleClassesOf(g) ==
    CASE g = "racGrammar" -> RacExampleClasses
      [] g = "catalaGrammar" -> CatalaExampleClasses
      [] g = "racCatalaGrammar" -> RacCatalaExampleClasses

\* C22: each class that a registered grammar declares, nested classes
\* included, has an example text whose tokenization with that grammar holds a
\* token of it.
C22_EveryClassHasAToken ==
    \A l \in LanguageNames :
        languages[l] # "undefined" =>
            DeclaredClasses(GrammarOf(languages[l])) \subseteq ExampleClassesOf(languages[l])

C22_Witness ==
    /\ pc = "done" /\ fx.kind = "example" /\ gname = "catalaGrammar"
    /\ code = "declaration scope IncomeTax:"
    /\ "scope-declaration" \in ClassesIn(tokens)
    /\ "scope-name" \in ClassesIn(tokens)
    /\ Has("scope-name", "IncomeTax")

RECURSIVE Expands(_)
\* each token with nested tokens is, piece by piece, its own content
Expands(toks) ==
    \A k \in DOMAIN toks :
        Len(toks[k].inside) > 0 =>
            /\ Concat(toks[k].inside) = toks[k].content
            /\ Expands(toks[k].inside)

\* the token list after the pass of the first pattern of grammar G over text t
AfterFirstPattern(t, G) == NodeLoop(t, G, 1, <<Plain(t)>>, 1, 0, FALSE, 0, 0).toks

\* C24: tokenizing loses nothing: during a call and at its end, for every
\* text and grammar, the contents of the nodes of the token list, joined in
\* order, are the text; each token with nested tokens is the join of its
\* nested tokens; so the leaves, plain strings included, joined in order are
\* the text, also after a greedy pattern has replaced tokens of an earlier one.
C24_NoCharacterLost ==
    (pc \in {"run", "done"}) =>
        /\ Concat(tokens) = code
        /\ Expands(tokens)
        /\ Concat(Flat(tokens)) = code

\* the block comment of Catala has taken the place of the line comment that
\* the first pattern had made of `# b */`, and the text after it is kept
C24_Witness ==
    /\ pc = "done" /\ fx.kind = "enclosed" /\ gname = "catalaGrammar"
    /\ code = "/* a # b */\nscope Foo"
    /\ \E k \in DOMAIN AfterFirstPattern(code, catalaGrammar) :
           AfterFirstPattern(code, catalaGrammar)[k] = [type |-> "comment", content |-> "# b */", inside |-> <<>>]
    /\ Has("comment", "/* a # b */")
    /\ ~Has("comment", "# b */")
    /\ Has("scope-name", "Foo")
    /\ Concat(Flat(tokens)) = code

\* the key that starts at offset o of the code has a space or a tab before
\* it, or before the `- ` before it
AfterBlank(o) ==
    LET k == IF o >= 2 /\ Slice(code, o - 2, o) = "- " THEN o - 2 ELSE o
    IN k >= 1 /\ Ch(code, k) \in {" ", "\t"}

C26_IndentedKeywordIsNoDeclaration ==
    (pc = "done" /\ fx.kind = "indecl") =>
        /\ ~StartsWithin("section-keyword", Len(fx.pre), Len(code))
        /\ ~StartsWithin("declaration-name", Len(fx.pre), Len(code))

\* C27: with the RAC grammar, no section-declaration token holds a line
\* break, and a section keyword alone on its line before an indented
\* attribute line gives no declaration-name token.
C27_DeclarationOnOneLine ==
    (pc = "done" /\ gname = "racGrammar") =>
        /\ \A k \in DOMAIN tokens :
               tokens[k].type = "section-declaration" => ~HasLineBreak(tokens[k].content)
        /\ (fx.kind = "nextline") => CountOf("declaration-name") = 0

\* the string str holds the string sub
Holds(str, sub) ==
    \E i \in 0..(Len(str) - Len(sub)) : Slice(str, i, i + Len(sub)) = sub

\* C28: in both grammars, a quoted literal whose body holds a comment marker
\* is one string token, the whole literal, and no comment token starts in it;
\* a comment that holds quote characters is one comment token and no string
\* token starts in it.
C28_MarkerInStringQuoteInComment ==
    /\ (pc = "done" /\ (fx.kind = "quoted" \/ (fx.kind = "string" /\ Holds(fx.b, "#")))) =>
           /\ HasAt("string", fx.a \o fx.b \o fx.c, Len(fx.pre))
           /\ ~StartsWithin("comment", Len(fx.pre), Len(fx.pre \o fx.a \o fx.b \o fx.c))
    /\ (pc = "done" /\ fx.kind = "quoted" /\ Holds(fx.post, "#")) =>
           /\ HasAt("comment", "# c \"d\" 'e'", Len(code) - 11)
           /\ ~StartsWithin("string", Len(code) - 11, Len(code))
    /\ (pc = "done" /\ fx.kind = "comment" /\ Holds(fx.b, "\"")) =>
           /\ HasAt("comment", fx.a \o fx.b, Len(fx.pre))
           /\ ~StartsWithin("string", Len(fx.pre), Len(fx.pre \o fx.a \o fx.b))

\* the classes of the word lists and of the booleans
WordClasses == {lc[2] : lc \in ListClasses} \cup {"boolean"}

\* C29: with the RAC grammar, an identifier that holds a listed word gives no
\* keyword, builtin, entity-type, period-type, dtype or boolean token for a
\* part of it: a token of these classes that starts in the identifier is the
\* whole identifier (`min` is one builtin, with no keyword `in`).
C29_WholeWordsOnly ==
    (pc = "done" /\ fx.kind = "word") =>
        \A i \in DOMAIN Result :
            (/\ Result[i].type \in WordClasses
             /\ StartOf(Result, i) >= Len(fx.pre)
             /\ StartOf(Result, i) < Len(fx.pre \o fx.a \o fx.b \o fx.c)) =>
                /\ StartOf(Result, i) = Len(fx.pre)
                /\ Result[i].content = fx.a \o fx.b \o fx.c

\* C30: the Catala grammar of prism-rac and the Catala grammar of
\* prism-catala give the same (class, content) sequence for every text, so the
\* result of a call with the grammar registered under `catala` is the result
\* of either, in whichever order the packages were loaded.
C30_CatalaSameInAnyOrder ==
    (pc = "done" /\ lang = "catala") =>
        /\ Result = Flat(Tokenize(code, catalaGrammar))
        /\ Result = Flat(Tokenize(code, racCatalaGrammar))

====
